---------------------------- MODULE Spec2Model ----------------------------
(***************************************************************************)
(* A model of the play-p2p example drivers:                                *)
(*   utils.rs          address normalisation (parse_legacy_multiaddr)      *)
(*   ipfs-pubsub.rs    pub/sub driver (and its copy ipfs-gossip.rs)        *)
(*   chat.rs           chat driver (gossipsub + mDNS)                      *)
(*   file-sharing.rs   file-distribution front end (provide / get)         *)
(*   ipfs-kad.rs       DHT driver (get-peers / put-pk-record)              *)
(* Each driver has its own specification over the shared variables; the    *)
(* variables of the other drivers stay at their initial values.            *)
(***************************************************************************)
EXTENDS Naturals, Sequences, FiniteSets

(***************************************************************************)
(* Bounds of the model.                                                    *)
(***************************************************************************)
\* longest address text, counted in '/'-separated parts
MaxParts == 5
\* most command-line addresses of a pub/sub driver run
MaxArgs == 2
\* most input lines read, and most network events handled, in an event loop
MaxLoop == 2
\* most requests, and most chat messages, sent by peers outside the model
MaxForeign == 1
\* most discovery and connection events of the chat nodes
MaxNet == 1
\* most discovery and connection events of a chat node that runs alone
MaxMdns == 2
\* most input lines read by a chat node
MaxSay == 1
\* the lines typed at a chat node that runs alone
MaxSayAlone == 2

(***************************************************************************)
(* Addresses.  A text is held as the list of its '/'-separated parts, the  *)
(* form text.split('/') gives it (a text that starts with '/' has "" as    *)
(* its first part); a parsed Multiaddr is the list of its protocol         *)
(* segments <<protocol, value>>.                                           *)
(***************************************************************************)
Parts == {"", "ip4", "dns", "p2p", "ipfs", "127.0.0.1", "QmA"}

RECURSIVE SeqsUpTo(_, _)
SeqsUpTo(S, n) ==
    IF n = 0 THEN {<<>>}
    ELSE LET shorter == SeqsUpTo(S, n - 1)
         IN  shorter \cup {Append(s, x) : s \in {t \in shorter : Len(t) = n - 1}, x \in S}

\* every text of 1..MaxParts parts (split never yields an empty list)
Texts == SeqsUpTo(Parts, MaxParts) \ {<<>>}

ParseErr == [ok |-> FALSE, addr |-> <<>>]
ParseOk(a) == [ok |-> TRUE, addr |-> a]

\* the protocol tags Multiaddr::from_str knows here, each taking one value
KnownTags == {"ip4", "dns", "p2p"}
ProtocolOf(tag) ==
    CASE tag = "ip4" -> "Ip4"
      [] tag = "dns" -> "Dns"
      [] tag = "p2p" -> "P2p"
      [] OTHER -> "Unknown"
\* ip4 takes a dotted quad, p2p a base58 PeerId, dns any string
ValidValue(tag, v) ==
    CASE tag = "ip4" -> v = "127.0.0.1"
      [] tag = "p2p" -> v = "QmA"
      [] tag = "dns" -> TRUE
      [] OTHER -> FALSE

RECURSIVE from_str_parts(_, _)
from_str_parts(parts, acc) ==
    IF parts = <<>> THEN ParseOk(acc)
    ELSE IF Head(parts) \notin KnownTags THEN ParseErr
    ELSE IF Tail(parts) = <<>> THEN ParseErr
    ELSE IF ~ValidValue(Head(parts), Head(Tail(parts))) THEN ParseErr
    ELSE from_str_parts(Tail(Tail(parts)),
                        Append(acc, <<ProtocolOf(Head(parts)), Head(Tail(parts))>>))

\* Multiaddr::from_str: the text must start with '/', then tag/value pairs
Multiaddr_from_str(text) ==
    IF Head(text) # "" THEN ParseErr ELSE from_str_parts(Tail(text), <<>>)

\* mutant: the substitution is left out
sanitized_NoSubstitution(text) == text
\* utils.rs 19-23: every part equal to "ipfs" becomes "p2p"
sanitized(text) ==
    [i \in 1..Len(text) |-> IF text[i] = "ipfs" THEN "p2p" ELSE text[i]]

IsP2p(seg) == seg[1] = "P2p"
LastIsP2p(addr) == addr # <<>> /\ IsP2p(addr[Len(addr)])

\* mutant: every PeerId segment is removed, wherever it stands
strip_peer_id_RemovesEveryPeerId(addr) == SelectSeq(addr, LAMBDA seg : seg[1] # "P2p")
\* mutant: the popped segment is pushed back whatever it is
strip_peer_id_PushesBack(addr) == addr
\* utils.rs 30-46: pop the last segment; push it back unless it is a PeerId
strip_peer_id(addr) ==
    IF addr = <<>> THEN addr
    ELSE LET last == addr[Len(addr)]
             popped == SubSeq(addr, 1, Len(addr) - 1)
         IN  IF IsP2p(last) THEN popped ELSE Append(popped, last)

\* utils.rs 18-27
parse_legacy_multiaddr(text) ==
    LET res == Multiaddr_from_str(sanitized(text))
    IN  IF ~res.ok THEN ParseErr ELSE ParseOk(strip_peer_id(res.addr))

(***************************************************************************)
(* State.                                                                  *)
(***************************************************************************)
VARIABLES
    aText,      \* address run: the text handed to parse_legacy_multiaddr
    aPc,        \* address run: "input" | "done"
    aRes,       \* address run: what parse_legacy_multiaddr returned
    psPc,       \* pub/sub driver: "start" | "build" | "dial" | "loop", or where
                \* startup ended with an error: "failed_key" | "failed_build" |
                \* "failed_parse" | "failed_dial" | "failed_listen"
    psKeyFile,  \* swarm.key: "absent" | "wellformed" | "malformed" | "unreadable"
    psPnet,     \* the transport runs the pre-shared-key handshake
    psSubscribed, \* the node is subscribed to its topic
    psArgsLeft, \* command-line addresses not yet dialed
    psDials,    \* calls of swarm.dial so far
    psLastDial, \* the address handed to the latest swarm.dial
    psListening, \* swarm.listen_on succeeded
    psStdin,    \* "open" | "eof"
    psLines,    \* input lines read so far
    psPublishes, \* calls of gossipsub.publish so far
    psPubErrs,  \* the calls of gossipsub.publish that returned an error
    psCalls,    \* the calls on the swarm made while handling network events
    psEvents,   \* network events handled so far
    psOut,      \* the kind of the line printed last
    fPc,        \* file sharing, per node: where its main is
    fName,      \* per node: the --name of its provide or get action
    fCmds,      \* per node: the network commands its main has issued, in order
    fDialAddr,  \* per node: the --peer address main looked at (NoPeerArg before, and
                \* when none was given); it is the address handed to dial
    fDialPeer,  \* per node: the PeerId handed to dial
    fDht,       \* per name: the nodes recorded as its providers
    fGot,       \* per node: the providers get_providers returned
    fLive,      \* per node: the requests select_ok still waits for
    fReqs,      \* every request issued: the pending table, indexed by request id
    fInbox,     \* per node: the events its network hands to main, in order
    fStdout,    \* per node: the payloads written to standard output
    kPc,        \* DHT driver: "start" | "seed" | "cli" | "loop" | "exit_ok" | "exit_err"
    kRouting,   \* the peers added to the routing table
    kQueries,   \* the queries issued, in order
    kAcks,      \* the peers that acknowledged the record put
    kIgnored,   \* events the loop received and ignored
    kLast,      \* the event that ended the loop
    cPc,        \* chat, per node: "start" | "loop" | "failed"
    cExplicit,  \* per node: the explicit peers of its gossipsub
    cStdin,     \* per node: "open" | "eof"
    cLines,     \* per node: input lines read so far
    cNet,       \* discovery and connection events the network may still produce
    cCmds,      \* chat, per node: the commands main gave its swarm, in order
    cForged,    \* messages put on the wire by peers outside the model
    cWire,      \* the messages on their way, each to one node
    cRejected,  \* per node: the inbound messages its gossipsub dropped
    cEvents,    \* per node: the swarm events waiting for main, in order
    cOut        \* per node: what main printed, in order

addrVars == <<aText, aPc, aRes>>
psVars == <<psPc, psKeyFile, psPnet, psSubscribed, psArgsLeft, psDials, psLastDial,
            psListening, psStdin, psLines, psPublishes, psPubErrs, psCalls, psEvents, psOut>>
fVars == <<fPc, fName, fCmds, fDialAddr, fDialPeer, fDht, fGot, fLive, fReqs,
           fInbox, fStdout>>
kVars == <<kPc, kRouting, kQueries, kAcks, kIgnored, kLast>>
cVars == <<cPc, cExplicit, cStdin, cLines, cNet, cCmds, cForged, cWire, cRejected, cEvents,
           cOut>>
vars == <<addrVars, psVars, fVars, kVars, cVars>>

ChatNodes == {"n1", "n2"}

Nodes == {"A", "B", "C"}
\* the command line of each node, as in the driver's usage notes: A and C
\* provide and are started without --peer, B gets and may be given --peer
Providers == {"A", "C"}
Getters == {"B"}
Names == {"plan", "main"}

AddrIdle == aText = <<"">> /\ aPc = "off" /\ aRes = ParseErr
PsIdle ==
    /\ psPc = "off" /\ psKeyFile = "absent" /\ psPnet = FALSE /\ psSubscribed = FALSE
    /\ psArgsLeft = 0 /\ psDials = 0 /\ psLastDial = <<>> /\ psListening = FALSE
    /\ psStdin = "open" /\ psLines = 0 /\ psPublishes = 0 /\ psPubErrs = 0 /\ psCalls = <<>>
    /\ psEvents = 0
    /\ psOut = "none"
\* file-sharing.rs 44: args.peer is None
NoPeerArg == <<<<"None", "None">>>>
FishIdle ==
    /\ fPc = [n \in Nodes |-> "off"]
    /\ fName = [n \in Nodes |-> "none"]
    /\ fCmds = [n \in Nodes |-> <<>>]
    /\ fDialAddr = [n \in Nodes |-> NoPeerArg]
    /\ fDialPeer = [n \in Nodes |-> "none"]
    /\ fDht = [k \in Names |-> {}]
    /\ fGot = [n \in Nodes |-> {}]
    /\ fLive = [n \in Nodes |-> {}]
    /\ fReqs = <<>>
    /\ fInbox = [n \in Nodes |-> <<>>]
    /\ fStdout = [n \in Nodes |-> <<>>]
NoEvent == [kind |-> "none", peers |-> {}]
KadIdle ==
    /\ kPc = "off" /\ kRouting = {} /\ kQueries = <<>> /\ kAcks = {}
    /\ kIgnored = 0 /\ kLast = NoEvent
ChatIdle ==
    /\ cPc = [n \in ChatNodes |-> "off"]
    /\ cExplicit = [n \in ChatNodes |-> {}]
    /\ cStdin = [n \in ChatNodes |-> "open"]
    /\ cLines = [n \in ChatNodes |-> 0]
    /\ cNet = 0
    /\ cCmds = [n \in ChatNodes |-> <<>>]
    /\ cForged = 0
    /\ cWire = {}
    /\ cRejected = [n \in ChatNodes |-> {}]
    /\ cEvents = [n \in ChatNodes |-> <<>>]
    /\ cOut = [n \in ChatNodes |-> <<>>]

(***************************************************************************)
(* parse_legacy_multiaddr applied to every text within the bounds.         *)
(***************************************************************************)
AddrInit ==
    /\ aText \in Texts
    /\ aPc = "input"
    /\ aRes = ParseErr
    /\ PsIdle /\ FishIdle /\ KadIdle /\ ChatIdle

ParseLegacy ==
    /\ aPc = "input"
    /\ aRes' = parse_legacy_multiaddr(aText)
    /\ aPc' = "done"
    /\ UNCHANGED <<aText, psVars, fVars, kVars, cVars>>

AddrNext == ParseLegacy

SpecAddr == AddrInit /\ [][AddrNext]_vars

(***************************************************************************)
(* C1.  The legacy forms of a text: the same text with some of its "p2p"   *)
(* protocol tags written "ipfs".  Every protocol here takes one value, so  *)
(* the tags of a text that parses stand at its even positions.             *)
(***************************************************************************)
TagPositions(text) == {i \in 1..Len(text) : i % 2 = 0 /\ text[i] = "p2p"}
LegacyForms(text) ==
    {[i \in 1..Len(text) |-> IF i \in S THEN "ipfs" ELSE text[i]] :
        S \in SUBSET TagPositions(text)}
Parses(text) == Multiaddr_from_str(text).ok
EndsWithTwoPeerIds(addr) ==
    Len(addr) >= 2 /\ IsP2p(addr[Len(addr)]) /\ IsP2p(addr[Len(addr) - 1])

\* C1 as stated: for every text that parses, parse_legacy_multiaddr gives
\* the same address for its "ipfs" spelling as for its "p2p" spelling, and
\* that address has no trailing PeerId segment.
C1_LegacySameAndNoTrailingPeerId ==
    (aPc = "done" /\ Parses(aText)) =>
        /\ aRes.ok
        /\ \A legacy \in LegacyForms(aText) : parse_legacy_multiaddr(legacy) = aRes
        /\ ~LastIsP2p(aRes.addr)

\* C1 amended: the two spellings give the same address, which is the parsed
\* address without its last segment when that segment is a PeerId; it has
\* no trailing PeerId segment unless the address ended with two PeerId
\* segments (only one segment is ever removed).
C1_LegacySameAndLastPeerIdRemoved ==
    (aPc = "done" /\ Parses(aText)) =>
        /\ aRes.ok
        /\ \A legacy \in LegacyForms(aText) : parse_legacy_multiaddr(legacy) = aRes
        /\ (LastIsP2p(aRes.addr) => EndsWithTwoPeerIds(Multiaddr_from_str(aText).addr))
        /\ LET parsed == Multiaddr_from_str(sanitized(aText)).addr
           IN  aRes.addr = IF LastIsP2p(parsed)
                           THEN SubSeq(parsed, 1, Len(parsed) - 1) ELSE parsed

\* a text with a legacy spelling of its own has been normalised to a
\* non-empty address after its PeerId was removed
C1_Witness ==
    /\ aPc = "done"
    /\ Parses(aText)
    /\ \E legacy \in LegacyForms(aText) : legacy # aText
    /\ aRes.ok /\ aRes.addr # <<>> /\ ~LastIsP2p(aRes.addr)

(***************************************************************************)
(* The pub/sub driver (ipfs-pubsub.rs; ipfs-gossip.rs is the same program  *)
(* with a fixed topic).                                                    *)
(***************************************************************************)
\* what parse_legacy_multiaddr can return for a command-line address
ParsedArgs == {parse_legacy_multiaddr(t) : t \in Texts}

SwarmEventKinds ==
    {"NewListenAddr", "Identify", "GossipsubNotSupported", "Message",
     "PingOk", "PingTimeout", "PingUnsupported", "PingOther", "ConnectionEvent"}

PsInit ==
    /\ psPc = "start"
    /\ psKeyFile \in {"absent", "wellformed", "malformed", "unreadable"}
    /\ psPnet = FALSE /\ psSubscribed = FALSE
    /\ psArgsLeft \in 0..MaxArgs
    /\ psDials = 0 /\ psLastDial = <<>> /\ psListening = FALSE
    /\ psStdin = "open" /\ psLines = 0 /\ psPublishes = 0 /\ psPubErrs = 0 /\ psCalls = <<>>
    /\ psEvents = 0
    /\ psOut = "none"
    /\ AddrIdle /\ FishIdle /\ KadIdle /\ ChatIdle

\* mutant: a missing swarm.key is an error like any other read failure
get_pre_shared_key_NotFoundIsError(file) ==
    IF file \in {"absent", "unreadable"}
    THEN [ok |-> FALSE, text |-> "none"]
    ELSE [ok |-> TRUE, text |-> file]
\* utils.rs 4-15: None when swarm.key is absent, its text when it can be
\* read, the error otherwise
get_pre_shared_key(file) ==
    CASE file = "absent" -> [ok |-> TRUE, text |-> "none"]
      [] file = "unreadable" -> [ok |-> FALSE, text |-> "none"]
      [] OTHER -> [ok |-> TRUE, text |-> file]

\* ipfs-pubsub.rs 28-37: read the key file and parse the key
PsPreSharedKey ==
    /\ psPc = "start"
    /\ LET got == get_pre_shared_key(psKeyFile)
       IN  IF ~got.ok \/ got.text = "malformed"
           THEN psPc' = "failed_key" /\ UNCHANGED psPnet
           ELSE psPc' = "build" /\ psPnet' = (got.text = "wellformed")
    /\ UNCHANGED <<psKeyFile, psSubscribed, psArgsLeft, psDials, psLastDial,
                   psListening, psStdin, psLines, psPublishes, psPubErrs, psCalls, psEvents, psOut>>
    /\ UNCHANGED <<addrVars, fVars, kVars, cVars>>

\* ipfs-pubsub.rs 39-92: build the swarm (which may fail) and subscribe
PsBuildAndSubscribe ==
    /\ psPc = "build"
    /\ \E built \in BOOLEAN :
          IF built
          THEN psPc' = "dial" /\ psSubscribed' = TRUE
          ELSE psPc' = "failed_build" /\ UNCHANGED psSubscribed
    /\ UNCHANGED <<psKeyFile, psPnet, psArgsLeft, psDials, psLastDial,
                   psListening, psStdin, psLines, psPublishes, psPubErrs, psCalls, psEvents, psOut>>
    /\ UNCHANGED <<addrVars, fVars, kVars, cVars>>

\* mutant: an address that does not parse is skipped
PsDialArg_SkipsBadAddress ==
    /\ psPc = "dial"
    /\ psArgsLeft > 0
    /\ \E parsed \in ParsedArgs, dialed \in BOOLEAN :
          IF ~parsed.ok
          THEN psArgsLeft' = psArgsLeft - 1 /\ UNCHANGED <<psPc, psDials, psLastDial, psOut>>
          ELSE /\ psDials' = psDials + 1
               /\ psLastDial' = parsed.addr
               /\ IF dialed
                  THEN psArgsLeft' = psArgsLeft - 1 /\ psOut' = "Dialed"
                                                    /\ UNCHANGED psPc
                  ELSE psPc' = "failed_dial" /\ UNCHANGED <<psArgsLeft, psOut>>
    /\ UNCHANGED <<psKeyFile, psPnet, psSubscribed, psListening, psStdin, psLines,
                   psPublishes, psPubErrs, psCalls, psEvents>>
    /\ UNCHANGED <<addrVars, fVars, kVars, cVars>>

\* ipfs-pubsub.rs 95-99: one turn of the loop over the command-line
\* addresses: parse the address, dial it; either may fail and end the run
PsDialArg ==
    /\ psPc = "dial"
    /\ psArgsLeft > 0
    /\ \E parsed \in ParsedArgs, dialed \in BOOLEAN :
          IF ~parsed.ok
          THEN psPc' = "failed_parse" /\ UNCHANGED <<psArgsLeft, psDials, psLastDial, psOut>>
          ELSE /\ psDials' = psDials + 1
               /\ psLastDial' = parsed.addr
               /\ IF dialed
                  THEN psArgsLeft' = psArgsLeft - 1 /\ psOut' = "Dialed"
                                                    /\ UNCHANGED psPc
                  ELSE psPc' = "failed_dial" /\ UNCHANGED <<psArgsLeft, psOut>>
    /\ UNCHANGED <<psKeyFile, psPnet, psSubscribed, psListening, psStdin, psLines,
                   psPublishes, psPubErrs, psCalls, psEvents>>
    /\ UNCHANGED <<addrVars, fVars, kVars, cVars>>

\* ipfs-pubsub.rs 101: listen once every address is dialed
PsListen ==
    /\ psPc = "dial"
    /\ psArgsLeft = 0
    /\ \E ok \in BOOLEAN :
          IF ok
          THEN psPc' = "loop" /\ psListening' = TRUE
          ELSE psPc' = "failed_listen" /\ UNCHANGED psListening
    /\ UNCHANGED <<psKeyFile, psPnet, psSubscribed, psArgsLeft, psDials, psLastDial,
                   psStdin, psLines, psPublishes, psPubErrs, psCalls, psEvents, psOut>>
    /\ UNCHANGED <<addrVars, fVars, kVars, cVars>>

\* standard input reaches its end (or fails): next_line stops giving lines
PsStdinEnds ==
    /\ psPc = "loop"
    /\ psStdin = "open"
    /\ psStdin' = "eof"
    /\ UNCHANGED <<psPc, psKeyFile, psPnet, psSubscribed, psArgsLeft, psDials,
                   psLastDial, psListening, psLines, psPublishes, psPubErrs, psCalls, psEvents, psOut>>
    /\ UNCHANGED <<addrVars, fVars, kVars, cVars>>

\* mutant: a failed publish ends the run
PsAfterPublish_FailureEnds(published) == IF published THEN "loop" ELSE "failed_publish"
\* ipfs-pubsub.rs 107-115: the loop goes on whatever publish returned
PsAfterPublish(published) == "loop"

\* ipfs-pubsub.rs 107-115: a line was read; publish it, report a failure
PsPublishLine ==
    /\ psPc = "loop"
    /\ psStdin = "open"
    /\ psLines < MaxLoop
    /\ psLines' = psLines + 1
    /\ psPublishes' = psPublishes + 1
    /\ \E published \in BOOLEAN :
          /\ psPubErrs' = IF published THEN psPubErrs ELSE psPubErrs + 1
          /\ psOut' = IF published THEN psOut ELSE "Publish error"
          /\ psPc' = PsAfterPublish(published)
    /\ UNCHANGED <<psKeyFile, psPnet, psSubscribed, psArgsLeft, psDials,
                   psLastDial, psListening, psStdin, psCalls, psEvents>>
    /\ UNCHANGED <<addrVars, fVars, kVars, cVars>>

\* what the match of ipfs-pubsub.rs 117-178 prints for an event
PsPrinted(kind) ==
    CASE kind = "NewListenAddr" -> "Listening on"
      [] kind = "Identify" -> "identify"
      [] kind = "GossipsubNotSupported" -> "does not support Gossipsub protocol"
      [] kind = "Message" -> "Received message"
      [] kind = "PingOk" -> "ping: rtt"
      [] kind = "PingTimeout" -> "ping: timeout"
      [] kind = "PingUnsupported" -> "ping: does not support ping protocol"
      [] kind = "PingOther" -> "ping: ping::Failure"
      [] OTHER -> "connection_event"

\* mutant: a peer without the protocol is disconnected
PsCalls_DropsUnsupported(kind) ==
    IF kind = "GossipsubNotSupported" THEN <<"disconnect_peer_id">> ELSE <<>>

\* ipfs-pubsub.rs 116-179: the calls on the swarm in the arm of an event;
\* every arm is a println! and nothing else
PsCalls(kind) == <<>>

\* ipfs-pubsub.rs 116-179: one network event is handled
PsSwarmEvent ==
    /\ psPc = "loop"
    /\ psEvents < MaxLoop
    /\ psEvents' = psEvents + 1
    /\ \E kind \in SwarmEventKinds :
          /\ psOut' = PsPrinted(kind)
          /\ psCalls' = psCalls \o PsCalls(kind)
    /\ UNCHANGED <<psPc, psKeyFile, psPnet, psSubscribed, psArgsLeft, psDials,
                   psLastDial, psListening, psStdin, psLines, psPublishes, psPubErrs>>
    /\ UNCHANGED <<addrVars, fVars, kVars, cVars>>

PsNext ==
    \/ PsPreSharedKey
    \/ PsBuildAndSubscribe
    \/ PsDialArg
    \/ PsListen
    \/ PsStdinEnds
    \/ PsPublishLine
    \/ PsSwarmEvent

SpecPubsub == PsInit /\ [][PsNext]_vars

(***************************************************************************)
(* The file-distribution front end (file-sharing.rs), one run per node,    *)
(* and the network between the nodes.  main talks to the network through   *)
(* its client (start_listening, dial, start_providing, get_providers,      *)
(* request_file, respond_file) and its event stream; the network module    *)
(* itself (file_sharing_network) is modelled from the specification.       *)
(***************************************************************************)
\* the bytes of the file each node was started with (--path)
FileBytes(n) ==
    CASE n = "A" -> <<1, 2>>
      [] n = "B" -> <<3>>
      [] OTHER -> <<4, 5>>

\* the --peer addresses tried: none of its segments, without and with a PeerId
PeerArgs ==
    {<<>>, <<<<"Ip4", "127.0.0.1">>>>, <<<<"Ip4", "127.0.0.1">>, <<"P2p", "QmA">>>>}

Running(n) == fPc[n] \in {"peer", "action", "serving", "request", "racing"}
Orders(S) == {o \in [1..Cardinality(S) -> S] : \A i, j \in 1..Cardinality(S) :
                                                   o[i] = o[j] => i = j}
\* mutant: every client counts its own requests
RequestId_PerCall(reqs, i) == i
\* the id of the i-th request issued after those of reqs: ids are never
\* given twice
RequestId(reqs, i) == Len(reqs) + i
NewRequest(id, from, to, name) ==
    [id |-> id, from |-> from, to |-> to, name |-> name, st |-> "sent",
     payload |-> <<>>, handled |-> FALSE, responses |-> 0]
InboundRequest(id) == [kind |-> "InboundRequest", id |-> id]

FishInit ==
    /\ fPc = [n \in Nodes |-> "start"]
    /\ fName = [n \in Nodes |-> "none"]
    /\ fCmds = [n \in Nodes |-> <<>>]
    /\ fDialAddr = [n \in Nodes |-> NoPeerArg]
    /\ fDialPeer = [n \in Nodes |-> "none"]
    /\ fDht = [k \in Names |-> {}]
    /\ fGot = [n \in Nodes |-> {}]
    /\ fLive = [n \in Nodes |-> {}]
    /\ fReqs = <<>>
    /\ fInbox = [n \in Nodes |-> <<>>]
    /\ fStdout = [n \in Nodes |-> <<>>]
    /\ AddrIdle /\ PsIdle /\ KadIdle /\ ChatIdle

\* file-sharing.rs 20-42: create the network (an error ends the run), then
\* listen on the given or the default address (a failure panics)
FishStart(n) ==
    /\ fPc[n] = "start"
    /\ \E created \in BOOLEAN, listening \in BOOLEAN :
          IF ~created
          THEN fPc' = [fPc EXCEPT ![n] = "exit_err"] /\ UNCHANGED fCmds
          ELSE /\ fCmds' = [fCmds EXCEPT ![n] = Append(@, "start_listening")]
               /\ fPc' = [fPc EXCEPT ![n] = IF listening THEN "peer" ELSE "panicked"]
    /\ UNCHANGED <<fName, fDialAddr, fDialPeer, fDht, fGot, fLive, fReqs, fInbox,
                   fStdout>>
    /\ UNCHANGED <<addrVars, psVars, kVars, cVars>>

\* mutant: the --peer address is dialed only once the providers are known
FishDialPeer_Late(n) ==
    /\ fPc[n] = "request"
    /\ \A i \in 1..Len(fCmds[n]) : fCmds[n][i] # "dial"
    /\ \E addr \in PeerArgs, dialed \in BOOLEAN :
          /\ LastIsP2p(addr)
          /\ fCmds' = [fCmds EXCEPT ![n] = Append(@, "dial")]
          /\ fDialAddr' = [fDialAddr EXCEPT ![n] = addr]
          /\ fDialPeer' = [fDialPeer EXCEPT ![n] = addr[Len(addr)][2]]
          /\ fPc' = [fPc EXCEPT ![n] = IF dialed THEN "request" ELSE "panicked"]
    /\ UNCHANGED <<fName, fDht, fGot, fLive, fReqs, fInbox, fStdout>>
    /\ UNCHANGED <<addrVars, psVars, kVars, cVars>>

\* file-sharing.rs 44-49: --peer was given and its last segment is a PeerId:
\* dial that PeerId at the address as given (a failure panics)
FishDialPeer(n) ==
    /\ fPc[n] = "peer"
    /\ \E addr \in PeerArgs, dialed \in BOOLEAN :
          /\ LastIsP2p(addr)
          /\ fCmds' = [fCmds EXCEPT ![n] = Append(@, "dial")]
          /\ fDialAddr' = [fDialAddr EXCEPT ![n] = addr]
          /\ fDialPeer' = [fDialPeer EXCEPT ![n] = addr[Len(addr)][2]]
          /\ fPc' = [fPc EXCEPT ![n] = IF dialed THEN "action" ELSE "panicked"]
    /\ UNCHANGED <<fName, fDht, fGot, fLive, fReqs, fInbox, fStdout>>
    /\ UNCHANGED <<addrVars, psVars, kVars, cVars>>

\* mutant: a --peer address without a PeerId is passed over
FishPeerWithoutId_GoesOn(n) ==
    /\ fPc[n] = "peer"
    /\ \E addr \in PeerArgs :
          /\ ~LastIsP2p(addr)
          /\ fDialAddr' = [fDialAddr EXCEPT ![n] = addr]
    /\ fPc' = [fPc EXCEPT ![n] = "action"]
    /\ UNCHANGED <<fName, fCmds, fDialPeer, fDht, fGot, fLive, fReqs, fInbox, fStdout>>
    /\ UNCHANGED <<addrVars, psVars, kVars, cVars>>

\* file-sharing.rs 44, 51-53: --peer was given without a PeerId at its end:
\* main returns the error 'Expect peer multiaddr to contain peer ID.'
FishPeerWithoutId(n) ==
    /\ fPc[n] = "peer"
    /\ \E addr \in PeerArgs :
          /\ ~LastIsP2p(addr)
          /\ fDialAddr' = [fDialAddr EXCEPT ![n] = addr]
    /\ fPc' = [fPc EXCEPT ![n] = "exit_err"]
    /\ UNCHANGED <<fName, fCmds, fDialPeer, fDht, fGot, fLive, fReqs, fInbox, fStdout>>
    /\ UNCHANGED <<addrVars, psVars, kVars, cVars>>

\* file-sharing.rs 44: --peer was not given
FishNoPeer(n) ==
    /\ fPc[n] = "peer"
    /\ fPc' = [fPc EXCEPT ![n] = "action"]
    /\ UNCHANGED <<fName, fCmds, fDialAddr, fDialPeer, fDht, fGot, fLive, fReqs,
                   fInbox, fStdout>>
    /\ UNCHANGED <<addrVars, psVars, kVars, cVars>>

\* the network's start_providing: the node is recorded as a provider
start_providing(dht, n, name) == [dht EXCEPT ![name] = @ \cup {n}]

\* file-sharing.rs 58-60: provide: advertise the name, then serve
FishProvide(n, name) ==
    /\ fPc[n] = "action"
    /\ fName' = [fName EXCEPT ![n] = name]
    /\ fCmds' = [fCmds EXCEPT ![n] = Append(@, "start_providing")]
    /\ fDht' = start_providing(fDht, n, name)
    /\ fPc' = [fPc EXCEPT ![n] = "serving"]
    /\ UNCHANGED <<fDialAddr, fDialPeer, fGot, fLive, fReqs, fInbox, fStdout>>
    /\ UNCHANGED <<addrVars, psVars, kVars, cVars>>

\* the network's respond_file: the reply channel of request id is used; a
\* request still waiting is resolved with the payload, one resolved already
\* (failed in the meantime) keeps its result
\* mutant: a response replaces whatever result the request already has
respond_file_Overwrites(reqs, id, bytes) ==
    [reqs EXCEPT ![id] =
        [@ EXCEPT !.responses = @ + 1, !.st = "responded", !.payload = bytes]]
\* the network's respond_file: the response is sent on the request's reply
\* channel; a request that is no longer waiting keeps its result
respond_file(reqs, id, bytes) ==
    [reqs EXCEPT ![id] =
        [@ EXCEPT !.responses = @ + 1,
                  !.st = IF reqs[id].st = "inbound" THEN "responded" ELSE @,
                  !.payload = IF reqs[id].st = "inbound" THEN bytes ELSE @]]

\* the reply channel of request id is dropped unused: the request, if it
\* still waits, fails with no response
drop_channel(reqs, id) ==
    [reqs EXCEPT ![id].st = IF @ = "inbound" THEN "failed" ELSE @]

\* mutant: every request is answered, whatever it names
FishServes_AnyName(n, request) == TRUE
\* file-sharing.rs 67: the request is served when it names the provided file
FishServes(n, request) == request = fName[n]

\* mutant: the reply carries the request's name in place of the file
FishReply_Name(n, id) == <<fReqs[id].name>>
\* file-sharing.rs 70: the reply is what std::fs::read gave for --path
FishReply(n, id) == FileBytes(n)

\* file-sharing.rs 62-73: one turn of the serving loop, over a request
FishServe(n) ==
    /\ fPc[n] = "serving"
    /\ fInbox[n] # <<>>
    /\ LET e == Head(fInbox[n])
           taken == [fReqs EXCEPT ![e.id].handled = TRUE] IN
       /\ fInbox' = [fInbox EXCEPT ![n] = Tail(@)]
       /\ IF ~FishServes(n, fReqs[e.id].name)
          THEN /\ fReqs' = drop_channel(taken, e.id)
               /\ UNCHANGED <<fPc, fCmds>>
          ELSE \E read \in BOOLEAN :
                  IF read
                  THEN /\ fReqs' = respond_file(taken, e.id, FishReply(n, e.id))
                       /\ fCmds' = [fCmds EXCEPT ![n] = Append(@, "respond_file")]
                       /\ UNCHANGED fPc
                  ELSE \* std::fs::read failed: main returns the error
                       /\ fReqs' = drop_channel(taken, e.id)
                       /\ fPc' = [fPc EXCEPT ![n] = "exit_err"]
                       /\ UNCHANGED fCmds
    /\ UNCHANGED <<fName, fDialAddr, fDialPeer, fDht, fGot, fLive, fStdout>>
    /\ UNCHANGED <<addrVars, psVars, kVars, cVars>>

\* mutant: an event that is no request sends the run back to provide again
FishServeOther_ProvidesAgain(n) ==
    /\ fPc[n] = "serving"
    /\ fPc' = [fPc EXCEPT ![n] = "action"]
    /\ UNCHANGED <<fName, fCmds, fDialAddr, fDialPeer, fDht, fGot, fLive, fReqs,
                   fInbox, fStdout>>
    /\ UNCHANGED <<addrVars, psVars, kVars, cVars>>

\* file-sharing.rs 65, 74: one turn of the serving loop, over the next
\* event when it is no request (or the stream has ended): todo!() panics
FishServeOther(n) ==
    /\ fPc[n] = "serving"
    /\ fPc' = [fPc EXCEPT ![n] = "panicked"]
    /\ UNCHANGED <<fName, fCmds, fDialAddr, fDialPeer, fDht, fGot, fLive, fReqs,
                   fInbox, fStdout>>
    /\ UNCHANGED <<addrVars, psVars, kVars, cVars>>

\* the network's get_providers: providers found among those recorded
get_providers(dht, name) == SUBSET dht[name]

\* mutant: an empty provider set is not looked at
FishNoProvider_Never(providers) == FALSE
\* file-sharing.rs 83: providers.is_empty()
FishNoProvider(providers) == providers = {}

\* file-sharing.rs 80-86: get: look the providers up; none is an error
FishGetProviders(n, name) ==
    /\ fPc[n] = "action"
    /\ fName' = [fName EXCEPT ![n] = name]
    /\ fCmds' = [fCmds EXCEPT ![n] = Append(@, "get_providers")]
    /\ \E providers \in get_providers(fDht, name) :
          /\ fGot' = [fGot EXCEPT ![n] = providers]
          /\ fPc' = [fPc EXCEPT ![n] = IF FishNoProvider(providers) THEN "exit_err"
                                           ELSE "request"]
    /\ UNCHANGED <<fDialAddr, fDialPeer, fDht, fLive, fReqs, fInbox, fStdout>>
    /\ UNCHANGED <<addrVars, psVars, kVars, cVars>>

\* file-sharing.rs 88-97: one request_file per provider, each by a clone of
\* the client; select_ok's first poll issues them all, in the set's order
FishIssueRequests(n) ==
    /\ fPc[n] = "request"
    /\ \E order \in Orders(fGot[n]) :
          /\ fReqs' = fReqs \o [i \in 1..Len(order) |->
                                   NewRequest(RequestId(fReqs, i), n, order[i], fName[n])]
          /\ fLive' = [fLive EXCEPT ![n] = (Len(fReqs) + 1)..(Len(fReqs) + Len(order))]
          /\ fCmds' = [fCmds EXCEPT ![n] = @ \o [i \in 1..Len(order) |-> "request_file"]]
    /\ fPc' = [fPc EXCEPT ![n] = "racing"]
    /\ UNCHANGED <<fName, fDialAddr, fDialPeer, fDht, fGot, fInbox, fStdout>>
    /\ UNCHANGED <<addrVars, psVars, kVars, cVars>>

Min(S) == CHOOSE x \in S : \A y \in S : x <= y
Finished(ids) == {i \in ids : fReqs[i].st \in {"ok", "failed"}}
Succeeded(ids) == {i \in ids : fReqs[i].st = "ok"}

\* mutant: the first failure ends the race
FishRaceError_FirstFailure(n) == Finished(fLive[n]) # {}
\* file-sharing.rs 96-99: select_ok gives an error once no request is left
FishRaceError(n) == Finished(fLive[n]) = fLive[n]

\* mutant: the race is resolved with the first request that finished
FishRaceWinner_FirstFinished(n) == Min(Finished(fLive[n]))
\* select_ok: the first request of its list that is ready with a success
FishRaceWinner(n) == Min(Succeeded(fLive[n]))

\* file-sharing.rs 96-102: a poll of select_ok with a request finished: a
\* success ends the race and its payload is written to standard output;
\* failures are dropped from the list, and the last one is an error
\* (standard output is taken to accept the write)
FishSelectOk(n) ==
    /\ fPc[n] = "racing"
    /\ Finished(fLive[n]) # {}
    /\ IF Succeeded(fLive[n]) # {}
       THEN /\ fStdout' = [fStdout EXCEPT ![n] = Append(@, fReqs[FishRaceWinner(n)].payload)]
            /\ fLive' = [fLive EXCEPT ![n] = {}]
            /\ fPc' = [fPc EXCEPT ![n] = "exit_ok"]
       ELSE /\ fLive' = [fLive EXCEPT ![n] = @ \ Finished(@)]
            /\ fPc' = [fPc EXCEPT ![n] = IF FishRaceError(n) THEN "exit_err" ELSE @]
            /\ UNCHANGED fStdout
    /\ UNCHANGED <<fName, fCmds, fDialAddr, fDialPeer, fDht, fGot, fReqs, fInbox>>
    /\ UNCHANGED <<addrVars, psVars, kVars, cVars>>

(***************************************************************************)
(* The network between the front ends: the request/response exchange.      *)
(***************************************************************************)
\* a request reaches its target, whose network hands it to main as an event
FishDeliverRequest(id) ==
    /\ fReqs[id].st = "sent"
    /\ Running(fReqs[id].to)
    /\ fReqs' = [fReqs EXCEPT ![id].st = "inbound"]
    /\ fInbox' = [fInbox EXCEPT ![fReqs[id].to] = Append(@, InboundRequest(id))]
    /\ UNCHANGED <<fPc, fName, fCmds, fDialAddr, fDialPeer, fDht, fGot, fLive, fStdout>>
    /\ UNCHANGED <<addrVars, psVars, kVars, cVars>>

\* a request not yet answered fails: the peer is unreachable, the exchange
\* timed out, or its reply channel was dropped
FishRequestFails(id) ==
    /\ fReqs[id].st \in {"sent", "inbound", "responded"}
    /\ fReqs' = [fReqs EXCEPT ![id].st = "failed", ![id].payload = <<>>]
    /\ UNCHANGED <<fPc, fName, fCmds, fDialAddr, fDialPeer, fDht, fGot, fLive, fInbox,
                   fStdout>>
    /\ UNCHANGED <<addrVars, psVars, kVars, cVars>>

\* the response reaches the requester: its pending request is resolved
FishResponseArrives(id) ==
    /\ fReqs[id].st = "responded"
    /\ fReqs' = [fReqs EXCEPT ![id].st = "ok"]
    /\ UNCHANGED <<fPc, fName, fCmds, fDialAddr, fDialPeer, fDht, fGot, fLive, fInbox,
                   fStdout>>
    /\ UNCHANGED <<addrVars, psVars, kVars, cVars>>

\* a peer outside the model requests a name from a serving node
FishForeignRequest(to, name) ==
    /\ fPc[to] = "serving"
    /\ Cardinality({i \in 1..Len(fReqs) : fReqs[i].from = "outside"}) < MaxForeign
    /\ fReqs' = Append(fReqs, NewRequest(RequestId(fReqs, 1), "outside", to, name))
    /\ UNCHANGED <<fPc, fName, fCmds, fDialAddr, fDialPeer, fDht, fGot, fLive, fInbox,
                   fStdout>>
    /\ UNCHANGED <<addrVars, psVars, kVars, cVars>>

FishNext ==
    \/ \E n \in Nodes : FishStart(n)
    \/ \E n \in Getters : FishDialPeer(n)
    \/ \E n \in Getters : FishPeerWithoutId(n)
    \/ \E n \in Nodes : FishNoPeer(n)
    \/ \E n \in Providers, name \in Names : FishProvide(n, name)
    \/ \E n \in Nodes : FishServe(n)
    \/ \E n \in Nodes : FishServeOther(n)
    \/ \E n \in Getters, name \in Names : FishGetProviders(n, name)
    \/ \E n \in Nodes : FishIssueRequests(n)
    \/ \E n \in Nodes : FishSelectOk(n)
    \/ \E id \in 1..Len(fReqs) : FishDeliverRequest(id)
    \/ \E id \in 1..Len(fReqs) : FishRequestFails(id)
    \/ \E id \in 1..Len(fReqs) : FishResponseArrives(id)
    \/ \E to \in Nodes, name \in Names : FishForeignRequest(to, name)

SpecFish == FishInit /\ [][FishNext]_vars

(***************************************************************************)
(* The drivers that dial: a run of the pub/sub driver or a run of the      *)
(* file-distribution front ends.                                           *)
(***************************************************************************)
DialersInit == PsInit \/ FishInit
DialersNext == PsNext \/ FishNext
SpecDialers == DialersInit /\ [][DialersNext]_vars

Has(cmds, c) == \E i \in 1..Len(cmds) : cmds[i] = c
Count(cmds, c) == Cardinality({i \in 1..Len(cmds) : cmds[i] = c})
DropLast(addr) == SubSeq(addr, 1, Len(addr) - 1)
\* the command-line addresses as parsed, each without its last segment when
\* that segment is a PeerId
OnceStripped ==
    {IF LastIsP2p(a) THEN DropLast(a) ELSE a :
        a \in {Multiaddr_from_str(sanitized(t)).addr :
                  t \in {u \in Texts : Multiaddr_from_str(sanitized(u)).ok}}}

\* C2 as stated: in every driver, no dial is issued with an address whose
\* last segment is a PeerId.
C2_NoDialWithTrailingPeerId ==
    /\ psDials > 0 => ~LastIsP2p(psLastDial)
    /\ \A n \in Nodes : Has(fCmds[n], "dial") => ~LastIsP2p(fDialAddr[n])

\* C2 amended: the pub/sub drivers dial the command-line address without
\* its last segment when that is a PeerId (one segment only); the
\* file-distribution front end dials the --peer address as given, whose
\* last segment is the PeerId it passes along.
C2_DialTargets ==
    /\ psDials > 0 => psLastDial \in OnceStripped
    /\ \A n \in Nodes : Has(fCmds[n], "dial") =>
          /\ fDialAddr[n] \in PeerArgs
          /\ LastIsP2p(fDialAddr[n])
          /\ fDialPeer[n] = fDialAddr[n][Len(fDialAddr[n])][2]

\* the pub/sub driver dialed an address from which a PeerId was removed
C2_Witness ==
    /\ psDials > 0
    /\ psLastDial # <<>>
    /\ ~LastIsP2p(psLastDial)
    /\ Append(psLastDial, <<"P2p", "QmA">>) \in
          {Multiaddr_from_str(t).addr : t \in {u \in Texts : Parses(u)}}

(***************************************************************************)
(* Claims about the get action.                                            *)
(***************************************************************************)
RequestsOf(n) == {i \in 1..Len(fReqs) : fReqs[i].from = n}
Looked(n) == Has(fCmds[n], "get_providers")
RaceOver(n) == Looked(n) /\ fPc[n] \in {"exit_ok", "exit_err"}

C5_OneSuccessWins ==
    \A n \in Nodes :
        /\ fPc[n] \in {"racing", "exit_ok"} \/ (RaceOver(n) /\ fGot[n] # {}) =>
              /\ {fReqs[i].to : i \in RequestsOf(n)} = fGot[n]
              /\ Cardinality(RequestsOf(n)) = Cardinality(fGot[n])
              /\ Count(fCmds[n], "request_file") = Cardinality(fGot[n])
        /\ \A w \in RequestsOf(n) :
              ( /\ RaceOver(n)
                /\ fReqs[w].st = "ok"
                /\ \A i \in RequestsOf(n) \ {w} : fReqs[i].st = "failed" ) =>
              /\ fPc[n] = "exit_ok"
              /\ fStdout[n] = <<fReqs[w].payload>>
              /\ fReqs[w].payload = FileBytes(fReqs[w].to)

\* two requests were raced, the first of the list failed, the second won
C5_Witness ==
    \E n \in Nodes : \E l, w \in RequestsOf(n) :
        /\ l < w
        /\ fReqs[l].st = "failed" /\ fReqs[w].st = "ok"
        /\ fPc[n] = "exit_ok"
        /\ fStdout[n] = <<fReqs[w].payload>>

C8_ServesEveryMatchingRequest ==
    \A i \in 1..Len(fReqs) :
        /\ fReqs[i].responses <= 1
        /\ fReqs[i].handled =>
              fReqs[i].responses = IF fReqs[i].name = fName[fReqs[i].to] THEN 1 ELSE 0

\* C8 amended: a request handled that names the provided file is answered
\* once, on its own channel, with the file, unless reading the file failed,
\* and then it is not answered and the run has ended with the error.
C8_ServesMatchingRequestsWhileReadable ==
    /\ \A p \in Nodes :
          Count(fCmds[p], "respond_file") =
             Cardinality({i \in 1..Len(fReqs) : fReqs[i].to = p /\ fReqs[i].responses = 1})
    /\ \A i \in 1..Len(fReqs) :
        LET r == fReqs[i] IN
        /\ r.responses <= 1
        /\ r.responses = 1 => r.handled /\ r.name = fName[r.to]
        /\ r.st \in {"responded", "ok"} => r.payload = FileBytes(r.to)
        /\ (r.handled /\ r.name # fName[r.to]) => r.responses = 0
        /\ (r.handled /\ r.name = fName[r.to]) =>
              \/ r.responses = 1
              \/ r.responses = 0 /\ fPc[r.to] = "exit_err"

\* a provider answered one request and dropped another that named a
\* different file
C8_Witness ==
    \E i, j \in 1..Len(fReqs) :
        /\ fReqs[i].to = fReqs[j].to
        /\ fReqs[i].handled /\ fReqs[i].responses = 1
        /\ fReqs[j].handled /\ fReqs[j].responses = 0
        /\ fReqs[j].name # fName[fReqs[j].to]
        /\ fPc[fReqs[i].to] = "serving"

(***************************************************************************)
(* The order of the network commands of a run.                             *)
(***************************************************************************)
\* C9 as stated: the dial of the --peer address comes before every other
\* network command of the run.
C9_DialComesFirst ==
    \A n \in Nodes : Has(fCmds[n], "dial") => fCmds[n][1] = "dial"

\* C9 amended: the dial of the --peer address comes right after
\* start_listening and before start_providing, get_providers and
\* request_file.
C9_DialFollowsListening ==
    \A n \in Nodes : Has(fCmds[n], "dial") =>
        /\ Len(fCmds[n]) >= 2
        /\ fCmds[n][1] = "start_listening"
        /\ fCmds[n][2] = "dial"
        /\ \A i \in 3..Len(fCmds[n]) : fCmds[n][i] \notin {"dial", "start_listening"}

\* a run dialed its --peer and went on to request the file
C9_Witness ==
    \E n \in Nodes : Has(fCmds[n], "dial") /\ Has(fCmds[n], "request_file")

(***************************************************************************)
(* The DHT driver (ipfs-kad.rs).                                           *)
(***************************************************************************)
\* ipfs-kad.rs 18-23
BOOTNODES == <<"QmNnooDu7bfj", "QmQCU2EcMqAq", "QmbLHAnMoJPW", "QmcZf59bWwK5">>
\* the peers of the DHT: the boot nodes and one other
KadPeers == {BOOTNODES[i] : i \in 1..Len(BOOTNODES)} \cup {"QmOther"}
\* the texts that parse as a PeerId
PeerIdParses(text) == text \in KadPeers
\* kad::Quorum::N(n): n peers must store the record
Quorum_N(n) == n
\* mutant: the record is put with a quorum of one
Quorum_One == Quorum_N(1)
\* ipfs-kad.rs 86: the quorum of the record put
Quorum == Quorum_N(3)

KadInit ==
    /\ kPc = "start" /\ kRouting = {} /\ kQueries = <<>> /\ kAcks = {}
    /\ kIgnored = 0 /\ kLast = NoEvent
    /\ AddrIdle /\ PsIdle /\ FishIdle /\ ChatIdle

\* ipfs-kad.rs 29-51: build the swarm, which may fail
KadBuild ==
    /\ kPc = "start"
    /\ \E built \in BOOLEAN : kPc' = IF built THEN "seed" ELSE "exit_err"
    /\ UNCHANGED <<kRouting, kQueries, kAcks, kIgnored, kLast>>
    /\ UNCHANGED <<addrVars, psVars, fVars, cVars>>

\* mutant: the loop over BOOTNODES ends after its first turn
KadAddBootnode_StopsAfterFirst ==
    /\ kPc = "seed"
    /\ LET i == Cardinality(kRouting) + 1 IN
       IF ~PeerIdParses(BOOTNODES[i])
       THEN kPc' = "exit_err" /\ UNCHANGED kRouting
       ELSE /\ kRouting' = kRouting \cup {BOOTNODES[i]}
            /\ kPc' = "cli"
    /\ UNCHANGED <<kQueries, kAcks, kIgnored, kLast>>
    /\ UNCHANGED <<addrVars, psVars, fVars, cVars>>

\* ipfs-kad.rs 55-60: one turn of the loop over BOOTNODES: parse the PeerId
\* and add its address to the routing table
KadAddBootnode ==
    /\ kPc = "seed"
    /\ LET i == Cardinality(kRouting) + 1 IN
       IF ~PeerIdParses(BOOTNODES[i])
       THEN kPc' = "exit_err" /\ UNCHANGED kRouting
       ELSE /\ kRouting' = kRouting \cup {BOOTNODES[i]}
            /\ kPc' = IF i = Len(BOOTNODES) THEN "cli" ELSE "seed"
    /\ UNCHANGED <<kQueries, kAcks, kIgnored, kLast>>
    /\ UNCHANGED <<addrVars, psVars, fVars, cVars>>

\* ipfs-kad.rs 62: the command line is not a command of the program: the
\* argument parser prints the usage and ends the process
KadUsageError ==
    /\ kPc = "cli"
    /\ kPc' = "exit_err"
    /\ UNCHANGED <<kRouting, kQueries, kAcks, kIgnored, kLast>>
    /\ UNCHANGED <<addrVars, psVars, fVars, cVars>>

\* ipfs-kad.rs 65-70: get-peers: start the closest-peers query
KadGetPeers ==
    /\ kPc = "cli"
    /\ kQueries' = Append(kQueries, "GetClosestPeers")
    /\ kPc' = "loop"
    /\ UNCHANGED <<kRouting, kAcks, kIgnored, kLast>>
    /\ UNCHANGED <<addrVars, psVars, fVars, cVars>>

\* ipfs-kad.rs 71-87: put-pk-record: start the record put, which the local
\* store may refuse
KadPutPkRecord ==
    /\ kPc = "cli"
    /\ \E stored \in BOOLEAN :
          IF stored
          THEN kQueries' = Append(kQueries, "PutRecord") /\ kPc' = "loop"
          ELSE kPc' = "exit_err" /\ UNCHANGED kQueries
    /\ UNCHANGED <<kRouting, kAcks, kIgnored, kLast>>
    /\ UNCHANGED <<addrVars, psVars, fVars, cVars>>

\* a peer acknowledges the record while the put is under way
KadAck(p) ==
    /\ kPc = "loop"
    /\ kQueries = <<"PutRecord">>
    /\ p \notin kAcks
    /\ kAcks' = kAcks \cup {p}
    /\ UNCHANGED <<kPc, kRouting, kQueries, kIgnored, kLast>>
    /\ UNCHANGED <<addrVars, psVars, fVars, cVars>>

\* the results the DHT can report for the query under way: a closest-peers
\* query ends with peers or times out; a record put succeeds once the quorum
\* has acknowledged, and fails when it ends or times out (ipfs-kad.rs 47)
\* before that
KadResults ==
    IF kQueries = <<"GetClosestPeers">>
    THEN {[kind |-> k, peers |-> ps] :
             k \in {"GetClosestPeersOk", "GetClosestPeersTimeout"}, ps \in SUBSET KadPeers}
    ELSE {[kind |-> k, peers |-> kAcks] :
             k \in {"PutRecordErr"} \cup
                   (IF Cardinality(kAcks) >= Quorum THEN {"PutRecordOk"} ELSE {})}

\* mutant: a closest-peers query that timed out ends the run well
KadExit_TimeoutIsFine(e) ==
    CASE e.kind = "GetClosestPeersOk" ->
            IF e.peers = {} THEN "exit_err" ELSE "exit_ok"
      [] e.kind = "GetClosestPeersTimeout" -> "exit_ok"
      [] e.kind = "PutRecordOk" -> "exit_ok"
      [] e.kind = "PutRecordErr" -> "exit_err"
      [] OTHER -> "loop"
\* mutant: a query that failed leaves the loop running
KadExit_FailureGoesOn(e) ==
    CASE e.kind = "GetClosestPeersOk" ->
            IF e.peers = {} THEN "exit_err" ELSE "exit_ok"
      [] e.kind = "PutRecordOk" -> "exit_ok"
      [] OTHER -> "loop"
\* mutant: an empty set of closest peers is reported as a success
KadExit_EmptyIsFine(e) ==
    IF e.kind \in {"GetClosestPeersOk", "PutRecordOk"} THEN "exit_ok" ELSE "exit_err"
\* ipfs-kad.rs 93-135: how the loop leaves on a query result
KadExit(e) ==
    CASE e.kind = "GetClosestPeersOk" ->
            IF e.peers = {} THEN "exit_err" ELSE "exit_ok"
      [] e.kind = "GetClosestPeersTimeout" -> "exit_err"
      [] e.kind = "PutRecordOk" -> "exit_ok"
      [] e.kind = "PutRecordErr" -> "exit_err"
      [] OTHER -> "loop"

\* ipfs-kad.rs 90-135: the next event is the result of the query
KadQueryResult ==
    /\ kPc = "loop"
    /\ \E e \in KadResults :
          /\ kLast' = e
          /\ kPc' = KadExit(e)
    /\ UNCHANGED <<kRouting, kQueries, kAcks, kIgnored>>
    /\ UNCHANGED <<addrVars, psVars, fVars, cVars>>

\* ipfs-kad.rs 90-93, 135: the next event is anything else: it is ignored
KadOtherEvent ==
    /\ kPc = "loop"
    /\ kIgnored < MaxLoop
    /\ kIgnored' = kIgnored + 1
    /\ kPc' = KadExit([kind |-> "Other", peers |-> {}])
    /\ UNCHANGED <<kRouting, kQueries, kAcks, kLast>>
    /\ UNCHANGED <<addrVars, psVars, fVars, cVars>>

KadNext ==
    \/ KadBuild
    \/ KadAddBootnode
    \/ KadUsageError
    \/ KadGetPeers
    \/ KadPutPkRecord
    \/ \E p \in KadPeers : KadAck(p)
    \/ KadQueryResult
    \/ KadOtherEvent

SpecKad == KadInit /\ [][KadNext]_vars

\* C10: in a get-peers run, a closest-peers query that completes with no
\* peer ends the run with a failure; the run never ends well on an empty
\* set of closest peers.
C10_EmptyClosestPeersFails ==
    /\ (kQueries = <<"GetClosestPeers">> /\ kLast.kind = "GetClosestPeersOk"
            /\ kLast.peers = {}) => kPc = "exit_err"
    /\ (kQueries = <<"GetClosestPeers">> /\ kPc = "exit_ok") =>
          kLast.kind = "GetClosestPeersOk" /\ kLast.peers # {}

\* a get-peers run ended in the failure on an empty set of closest peers,
\* after events it had ignored
C10_Witness ==
    /\ kQueries = <<"GetClosestPeers">>
    /\ kLast = [kind |-> "GetClosestPeersOk", peers |-> {}]
    /\ kIgnored > 0
    /\ kPc = "exit_err"

(***************************************************************************)
(* The chat driver (chat.rs), one run per node, the messages between the   *)
(* nodes, and messages sent by peers outside the model.                    *)
(***************************************************************************)
ChatPeers == ChatNodes \cup {"outside"}
NoMsg == [to |-> "none", source |-> "none", sig |-> "none", data |-> <<"none", 0>>]
\* a message: the peer named as its source, the key its signature verifies
\* under ("none": unsigned, "bad": a signature that verifies under no key),
\* and its payload
Msg(to, source, sig, data) == [to |-> to, source |-> source, sig |-> sig, data |-> data]
SignatureValid(m) == m.sig # "none" /\ m.sig = m.source

\* chat.rs 30
MessageAuthenticity == "Signed"

\* mutant: signatures are checked only when present
ValidationMode_Permissive == "Permissive"
\* chat.rs 32
ValidationMode == "Strict"

\* what gossipsub publishes for a payload under the configured authenticity
BuildMessage(n, to, data) ==
    IF MessageAuthenticity = "Signed"
    THEN Msg(to, n, n, data)
    ELSE Msg(to, "none", "none", data)

\* whether gossipsub delivers an inbound message under the configured mode
Accepts(m) ==
    CASE ValidationMode = "Strict" -> SignatureValid(m)
      [] ValidationMode = "Permissive" -> m.sig = "none" \/ SignatureValid(m)
      [] ValidationMode = "Anonymous" -> m.sig = "none" /\ m.source = "none"
      [] OTHER -> TRUE

ChatEvent(kind, peers, m) == [kind |-> kind, peers |-> peers, msg |-> m]
Printed(line, m) == [line |-> line, msg |-> m, peer |-> "none"]
PrintedPeer(line, p) == [line |-> line, msg |-> NoMsg, peer |-> p]
\* chat.rs 43
topic == "paly-p2p-chat"
\* chat.rs 44, 57: subscribe and publish are both given the one topic
CmdTopic(cmd) == IF cmd \in {"subscribe", "publish"} THEN topic ELSE "none"
\* a command to the swarm: publish of the k-th line, or a command about a peer
Cmd(cmd, k, p) == [cmd |-> cmd, line |-> k, peer |-> p, topic |-> CmdTopic(cmd)]

ChatInit ==
    /\ cPc = [n \in ChatNodes |-> "start"]
    /\ cExplicit = [n \in ChatNodes |-> {}]
    /\ cStdin = [n \in ChatNodes |-> "open"]
    /\ cLines = [n \in ChatNodes |-> 0]
    /\ cNet = MaxNet
    /\ cCmds = [n \in ChatNodes |-> <<>>]
    /\ cForged = 0
    /\ cWire = {}
    /\ cRejected = [n \in ChatNodes |-> {}]
    /\ cEvents = [n \in ChatNodes |-> <<>>]
    /\ cOut = [n \in ChatNodes |-> <<>>]
    /\ AddrIdle /\ PsIdle /\ FishIdle /\ KadIdle

\* mutant: the node listens without subscribing
ChatStartCmds_NoSubscribe == <<Cmd("listen_on", 0, "none"), Cmd("listen_on", 0, "none")>>
\* chat.rs 44-48: the commands of startup
ChatStartCmds ==
    <<Cmd("subscribe", 0, "none"), Cmd("listen_on", 0, "none"), Cmd("listen_on", 0, "none")>>

\* chat.rs 20-48: build the swarm, subscribe and listen twice; each may
\* fail and end the run
ChatStart(n) ==
    /\ cPc[n] = "start"
    /\ \E done \in 0..Len(ChatStartCmds) :
          /\ cCmds' = [cCmds EXCEPT ![n] = SubSeq(ChatStartCmds, 1, done)]
          /\ cPc' = [cPc EXCEPT ![n] = IF done = Len(ChatStartCmds) THEN "loop" ELSE "failed"]
    /\ UNCHANGED <<cExplicit, cStdin, cLines, cNet, cForged, cWire, cRejected,
                   cEvents, cOut>>
    /\ UNCHANGED <<addrVars, psVars, fVars, kVars>>

\* mutant: the end of standard input ends the loop
ChatStdinEnds_EndsLoop(n) ==
    /\ cPc[n] = "loop"
    /\ cStdin[n] = "open"
    /\ cStdin' = [cStdin EXCEPT ![n] = "eof"]
    /\ cPc' = [cPc EXCEPT ![n] = "exited"]
    /\ UNCHANGED <<cExplicit, cLines, cNet, cCmds, cForged, cWire, cRejected,
                   cEvents, cOut>>
    /\ UNCHANGED <<addrVars, psVars, fVars, kVars>>

\* chat.rs 54: standard input reaches its end (or fails): next_line gives no
\* line, the pattern Ok(Some(line)) does not match and the branch is off
ChatStdinEnds(n) ==
    /\ cPc[n] = "loop"
    /\ cStdin[n] = "open"
    /\ cStdin' = [cStdin EXCEPT ![n] = "eof"]
    /\ UNCHANGED <<cPc, cExplicit, cLines, cNet, cCmds, cForged, cWire, cRejected,
                   cEvents, cOut>>
    /\ UNCHANGED <<addrVars, psVars, fVars, kVars>>

\* the lines standard input holds for a node: more for a node running alone
LinesOnStdin == IF \E m \in ChatNodes : cPc[m] = "off" THEN MaxSayAlone ELSE MaxSay

\* mutant: a failed publish ends the run
ChatAfterPublish_FailureEnds(published) == IF published THEN "loop" ELSE "failed"
\* chat.rs 54-60: the loop goes on whatever publish returned
ChatAfterPublish(published) == "loop"

\* chat.rs 54-60: a line was read; publish it to the other nodes, report a
\* failure
ChatPublishLine(n) ==
    /\ cPc[n] = "loop"
    /\ cStdin[n] = "open"
    /\ cLines[n] < LinesOnStdin
    /\ cLines' = [cLines EXCEPT ![n] = @ + 1]
    /\ cCmds' = [cCmds EXCEPT ![n] = Append(@, Cmd("publish", cLines[n] + 1, "none"))]
    /\ \E published \in BOOLEAN :
          /\ cPc' = [cPc EXCEPT ![n] = ChatAfterPublish(published)]
          /\ IF published
             THEN /\ cWire' = cWire \cup
                        {BuildMessage(n, to, <<n, cLines[n] + 1>>) : to \in ChatNodes \ {n}}
                  /\ UNCHANGED cOut
             ELSE /\ cOut' = [cOut EXCEPT ![n] = Append(@, Printed("Publish error", NoMsg))]
                  /\ UNCHANGED cWire
    /\ UNCHANGED <<cExplicit, cStdin, cNet, cForged, cRejected, cEvents>>
    /\ UNCHANGED <<addrVars, psVars, fVars, kVars>>

\* a peer outside the model sends a node a message: unsigned, with a
\* signature that does not verify, signed by itself under another peer's
\* name, or its own well-signed message
ChatOutsideMessage(to, source, sig) ==
    /\ cPc[to] = "loop"
    /\ cForged < MaxForeign
    /\ cForged' = cForged + 1
    /\ cWire' = cWire \cup {Msg(to, source, sig, <<"outside", cForged + 1>>)}
    /\ UNCHANGED <<cPc, cExplicit, cStdin, cLines, cNet, cCmds, cRejected, cEvents, cOut>>
    /\ UNCHANGED <<addrVars, psVars, fVars, kVars>>

\* the swarm of a node takes a message off the wire: gossipsub validates
\* it, and hands it on as an event or drops it
ChatInbound(m) ==
    /\ m \in cWire
    /\ cPc[m.to] = "loop"
    /\ cWire' = cWire \ {m}
    /\ IF Accepts(m)
       THEN /\ cEvents' = [cEvents EXCEPT ![m.to] = Append(@, ChatEvent("Message", {}, m))]
            /\ UNCHANGED cRejected
       ELSE /\ cRejected' = [cRejected EXCEPT ![m.to] = @ \cup {m}]
            /\ UNCHANGED cEvents
    /\ UNCHANGED <<cPc, cExplicit, cStdin, cLines, cNet, cCmds, cForged, cOut>>
    /\ UNCHANGED <<addrVars, psVars, fVars, kVars>>

\* the swarm of a node produces an event that is no message
ChatSwarmEvent(n, kind, peers) ==
    /\ cPc[n] = "loop"
    /\ cNet > 0
    /\ cNet' = cNet - 1
    /\ cEvents' = [cEvents EXCEPT ![n] = Append(@, ChatEvent(kind, peers, NoMsg))]
    /\ UNCHANGED <<cPc, cExplicit, cStdin, cLines, cCmds, cForged, cWire, cRejected, cOut>>
    /\ UNCHANGED <<addrVars, psVars, fVars, kVars>>

\* mutant: an expired peer stays in the explicit-peer set
ChatExplicitAfter_KeepsExpired(explicit, e) ==
    IF e.kind = "Discovered" THEN explicit \cup e.peers ELSE explicit
\* chat.rs 62-73: add_explicit_peer for every peer of a Discovered list,
\* remove_explicit_peer for every peer of an Expired list
ChatExplicitAfter(explicit, e) ==
    CASE e.kind = "Discovered" -> explicit \cup e.peers
      [] e.kind = "Expired" -> explicit \ e.peers
      [] OTHER -> explicit

\* mutant: a discovered peer is dialed as well
ChatCalls_DialsDiscovered(e, o) ==
    CASE e.kind = "Discovered" ->
            [i \in 1..(2 * Len(o)) |->
                Cmd(IF i % 2 = 1 THEN "add_explicit_peer" ELSE "dial", 0, o[(i + 1) \div 2])]
      [] e.kind = "Expired" -> [i \in 1..Len(o) |-> Cmd("remove_explicit_peer", 0, o[i])]
      [] OTHER -> <<>>
\* chat.rs 61-87: the commands the handling of an event gives the swarm, o
\* being the order of the peers in the event's list
ChatCalls(e, o) ==
    CASE e.kind = "Discovered" -> [i \in 1..Len(o) |-> Cmd("add_explicit_peer", 0, o[i])]
      [] e.kind = "Expired" -> [i \in 1..Len(o) |-> Cmd("remove_explicit_peer", 0, o[i])]
      [] OTHER -> <<>>

\* chat.rs 61-87: what the handling of an event prints
ChatPrints(e, o) ==
    CASE e.kind = "Discovered" ->
            [i \in 1..Len(o) |-> PrintedPeer("mDNS discovered a new peer", o[i])]
      [] e.kind = "Expired" ->
            [i \in 1..Len(o) |-> PrintedPeer("mDNS discover peer has expired", o[i])]
      [] e.kind = "Message" -> <<Printed("Received message", e.msg)>>
      [] e.kind = "NewListenAddr" -> <<Printed("Local node is listening on", NoMsg)>>
      [] OTHER -> <<Printed("connection_event", NoMsg)>>

\* mutant: the newest pending event is handled first
ChatNextEvent_Newest(events) == Len(events)
\* chat.rs 61: select_next_some gives the events in the order they came
ChatNextEvent(events) == 1

\* mutant: the loop waits for the input before it takes an event
ChatHandleEvent_AfterInput(n) ==
    /\ cPc[n] = "loop"
    /\ cStdin[n] = "eof" \/ cLines[n] >= LinesOnStdin
    /\ cEvents[n] # <<>>
    /\ LET k == ChatNextEvent(cEvents[n])
           e == cEvents[n][k]
       IN  /\ cEvents' = [cEvents EXCEPT ![n] =
                  SubSeq(@, 1, k - 1) \o SubSeq(@, k + 1, Len(@))]
           /\ cExplicit' = [cExplicit EXCEPT ![n] = ChatExplicitAfter(@, e)]
           /\ \E o \in Orders(e.peers) :
                 /\ cOut' = [cOut EXCEPT ![n] = @ \o ChatPrints(e, o)]
                 /\ cCmds' = [cCmds EXCEPT ![n] = @ \o ChatCalls(e, o)]
    /\ UNCHANGED <<cPc, cStdin, cLines, cNet, cForged, cWire, cRejected>>
    /\ UNCHANGED <<addrVars, psVars, fVars, kVars>>

\* chat.rs 61-87: one network event is handled
ChatHandleEvent(n) ==
    /\ cPc[n] = "loop"
    /\ cEvents[n] # <<>>
    /\ LET k == ChatNextEvent(cEvents[n])
           e == cEvents[n][k]
       IN  /\ cEvents' = [cEvents EXCEPT ![n] =
                  SubSeq(@, 1, k - 1) \o SubSeq(@, k + 1, Len(@))]
           /\ cExplicit' = [cExplicit EXCEPT ![n] = ChatExplicitAfter(@, e)]
           /\ \E o \in Orders(e.peers) :
                 /\ cOut' = [cOut EXCEPT ![n] = @ \o ChatPrints(e, o)]
                 /\ cCmds' = [cCmds EXCEPT ![n] = @ \o ChatCalls(e, o)]
    /\ UNCHANGED <<cPc, cStdin, cLines, cNet, cForged, cWire, cRejected>>
    /\ UNCHANGED <<addrVars, psVars, fVars, kVars>>

ChatNext ==
    \/ \E n \in ChatNodes : ChatStart(n)
    \/ \E n \in ChatNodes : ChatStdinEnds(n)
    \/ \E n \in ChatNodes : ChatPublishLine(n)
    \/ \E to \in ChatNodes, source \in ChatPeers, sig \in {"none", "bad", "outside"} :
          ChatOutsideMessage(to, source, sig)
    \/ \E m \in cWire : ChatInbound(m)
    \/ \E n \in ChatNodes, kind \in {"Discovered", "Expired"} :
          \E peers \in (SUBSET (ChatPeers \ {n})) \ {{}} : ChatSwarmEvent(n, kind, peers)
    \/ \E n \in ChatNodes, kind \in {"NewListenAddr", "ConnectionEvent"} :
          ChatSwarmEvent(n, kind, {})
    \/ \E n \in ChatNodes : ChatHandleEvent(n)

SpecChat == ChatInit /\ [][ChatNext]_vars

\* one chat node running alone on its network segment, with more discovery
\* and connection events
ChatAloneInit ==
    /\ cPc = [n \in ChatNodes |-> IF n = "n1" THEN "start" ELSE "off"]
    /\ cExplicit = [n \in ChatNodes |-> {}]
    /\ cStdin = [n \in ChatNodes |-> "open"]
    /\ cLines = [n \in ChatNodes |-> 0]
    /\ cNet = MaxMdns
    /\ cCmds = [n \in ChatNodes |-> <<>>]
    /\ cForged = 0
    /\ cWire = {}
    /\ cRejected = [n \in ChatNodes |-> {}]
    /\ cEvents = [n \in ChatNodes |-> <<>>]
    /\ cOut = [n \in ChatNodes |-> <<>>]
    /\ AddrIdle /\ PsIdle /\ FishIdle /\ KadIdle

SpecChatAlone == ChatAloneInit /\ [][ChatNext]_vars

ChatMessagesSeen(n) ==
    {cEvents[n][i].msg : i \in {j \in DOMAIN cEvents[n] : cEvents[n][j].kind = "Message"}}
        \cup {cOut[n][i].msg : i \in {j \in DOMAIN cOut[n] : cOut[n][j].line = "Received message"}}

\* C3: a message that is unsigned or whose signature does not verify never
\* becomes a Message event or a 'Received message' line at any node and leaves
\* no event of any kind; every message a node publishes names the node as its
\* source and is signed with the node's key.
C3_InvalidMessagesAreDropped ==
    /\ \A n \in ChatNodes :
          /\ \A m \in ChatMessagesSeen(n) : SignatureValid(m)
          /\ \A m \in cRejected[n] :
                /\ ~SignatureValid(m)
                /\ \A i \in DOMAIN cEvents[n] : cEvents[n][i].msg # m
                /\ \A i \in DOMAIN cOut[n] : cOut[n][i].msg # m
    /\ \A m \in cWire \cup UNION {ChatMessagesSeen(n) : n \in ChatNodes} :
          m.data[1] \in ChatNodes => m.source = m.data[1] /\ m.sig = m.data[1]

\* a node dropped an outside message that was not validly signed and printed
\* a message another node published
C3_Witness ==
    \E n \in ChatNodes :
        /\ \E m \in cRejected[n] : m.data[1] = "outside"
        /\ \E i \in DOMAIN cOut[n] :
              /\ cOut[n][i].line = "Received message"
              /\ cOut[n][i].msg.source \in ChatNodes \ {n}

(***************************************************************************)
(* Claims about the record put of the DHT driver.                          *)
(***************************************************************************)
\* C11: a put-pk-record run ends well only on a successful put that at
\* least 3 distinct peers acknowledged; a put that ends with fewer than 3
\* acknowledgments ends the run with the failure.
C11_PutNeedsThreeAcks ==
    /\ (kQueries = <<"PutRecord">> /\ kPc = "exit_ok") =>
          /\ kLast.kind = "PutRecordOk"
          /\ Cardinality(kLast.peers) >= 3
          /\ kLast.peers = kAcks
    /\ (kQueries = <<"PutRecord">> /\ kLast # NoEvent /\ Cardinality(kAcks) < 3) =>
          kLast.kind = "PutRecordErr" /\ kPc = "exit_err"

\* a put ended with the failure after two peers had acknowledged
C11_Witness ==
    /\ kQueries = <<"PutRecord">>
    /\ Cardinality(kAcks) = 2
    /\ kLast.kind = "PutRecordErr"
    /\ kPc = "exit_err"

(***************************************************************************)
(* Claims about the startup of the pub/sub driver.                         *)
(***************************************************************************)
\* C13: with no swarm.key the run goes on without the pre-shared-key
\* handshake; with a well-formed key the transport it builds, dials and
\* listens with has the handshake; with a malformed key, or a swarm.key
\* that cannot be read, startup ends with the error before any swarm is
\* built, any dial and any listen.
C13_KeyFileDecidesAdmission ==
    psPc # "start" =>
        /\ psKeyFile = "absent" => psPc # "failed_key" /\ psPnet = FALSE
        /\ psKeyFile = "wellformed" => psPc # "failed_key" /\ psPnet = TRUE
        /\ psKeyFile \in {"malformed", "unreadable"} =>
              /\ psPc = "failed_key"
              /\ psPnet = FALSE /\ psSubscribed = FALSE
              /\ psDials = 0 /\ psListening = FALSE

\* a run with a well-formed key dialed and listens, with the handshake
C13_Witness ==
    /\ psKeyFile = "wellformed" /\ psPnet = TRUE
    /\ psDials > 0 /\ psListening = TRUE /\ psPc = "loop"

(***************************************************************************)
(* Claims about local discovery in the chat driver.                        *)
(***************************************************************************)
AboutPeer(x) == x.peer # "none"
\* the peers whose latest discovery line at n says discovered
LastDiscovered(n) ==
    {p \in ChatPeers :
        \E i \in DOMAIN cOut[n] :
            /\ cOut[n][i] = PrintedPeer("mDNS discovered a new peer", p)
            /\ \A j \in DOMAIN cOut[n] : j > i => cOut[n][j].peer # p}

\* C14: the explicit-peer set of a node is the set of peers whose most
\* recent discovery event handled is Discovered; the only commands the
\* handling of discovery events gives the swarm are one add_explicit_peer
\* per discovered peer and one remove_explicit_peer per expired peer: no
\* dial, no disconnect.
C14_ExplicitPeersFollowDiscovery ==
    \A n \in ChatNodes :
        /\ cExplicit[n] = LastDiscovered(n)
        /\ \A i \in DOMAIN cCmds[n] :
              cCmds[n][i].cmd \in {"subscribe", "listen_on", "publish",
                                   "add_explicit_peer", "remove_explicit_peer"}
        /\ LET calls == SelectSeq(cCmds[n], AboutPeer)
               lines == SelectSeq(cOut[n], AboutPeer)
           IN  /\ Len(calls) = Len(lines)
               /\ \A i \in DOMAIN calls :
                     /\ calls[i].peer = lines[i].peer
                     /\ calls[i].cmd =
                           IF lines[i].line = "mDNS discovered a new peer"
                           THEN "add_explicit_peer" ELSE "remove_explicit_peer"

\* two peers were discovered, one of them expired and left the set
C14_Witness ==
    /\ cExplicit["n1"] = {"n2"}
    /\ \E i, j \in DOMAIN cOut["n1"] :
          /\ i < j
          /\ cOut["n1"][i] = PrintedPeer("mDNS discovered a new peer", "outside")
          /\ cOut["n1"][j] = PrintedPeer("mDNS discover peer has expired", "outside")

(***************************************************************************)
(* The event loops of the chat and pub/sub drivers.                        *)
(***************************************************************************)
LoopsInit == ChatInit \/ PsInit
LoopsNext == ChatNext \/ PsNext
SpecLoops == LoopsInit /\ [][LoopsNext]_vars

\* C15: once in its event loop a driver stays in it, whatever a publish
\* returns and whatever event comes; a publish that fails is reported as
\* 'Publish error' and the input stays open for the next line.
C15_LoopsGoOn ==
    [][ /\ psPc = "loop" => psPc' = "loop"
        /\ psPubErrs' # psPubErrs => psOut' = "Publish error" /\ psStdin' = psStdin
        /\ \A n \in ChatNodes :
              /\ cPc[n] = "loop" => cPc'[n] = "loop"
              /\ (cLines'[n] # cLines[n] /\ cWire' = cWire) =>
                    /\ cOut'[n] = Append(cOut[n], Printed("Publish error", NoMsg))
                    /\ cStdin'[n] = cStdin[n]
      ]_vars

\* a chat node reported a failed publish and then handled an event that only
\* the catch-all matches
C15_Witness ==
    \E n \in ChatNodes : \E i, j \in DOMAIN cOut[n] :
        /\ i < j
        /\ cOut[n][i] = Printed("Publish error", NoMsg)
        /\ cOut[n][j] = Printed("connection_event", NoMsg)
        /\ cPc[n] = "loop"

(***************************************************************************)
(* Claims about the requests in flight.                                    *)
(***************************************************************************)
\* C16: the requests in flight have pairwise distinct ids, and a request
\* that has its result (a response or a failure) keeps it: a later response
\* or failure for it changes nothing.
C16_DistinctIdsResolvedOnce ==
    [][ /\ \A i, j \in 1..Len(fReqs') : i # j => fReqs'[i].id # fReqs'[j].id
        /\ \A i \in 1..Len(fReqs) :
              fReqs[i].st \in {"ok", "failed"} =>
                  /\ fReqs'[i].st = fReqs[i].st
                  /\ fReqs'[i].payload = fReqs[i].payload
      ]_vars

\* a get raced two requests; one got its response, the other had failed
\* before its provider answered it
C16_Witness ==
    \E i, j \in 1..Len(fReqs) :
        /\ i # j /\ fReqs[i].from = fReqs[j].from /\ fReqs[i].from \in Getters
        /\ fReqs[i].st = "ok"
        /\ fReqs[j].st = "failed" /\ fReqs[j].responses = 1 /\ fReqs[j].payload = <<>>

(***************************************************************************)
(* Claims about the command-line addresses of the pub/sub driver.          *)
(***************************************************************************)
PsDialFailed == psPc \in {"failed_parse", "failed_dial"}

\* C17: a command-line address is passed only by a dial that succeeded; an
\* address that does not parse is not dialed and one that fails to dial is
\* dialed once; either ends startup at once: nothing is dialed afterwards,
\* no listen is started and the event loop is never entered.
C17_BadAddressEndsStartup ==
    /\ [](PsDialFailed =>
             /\ psArgsLeft > 0
             /\ psListening = FALSE
             /\ psLines = 0 /\ psPublishes = 0 /\ psEvents = 0)
    /\ [][ /\ PsDialFailed => UNCHANGED psVars
           /\ psArgsLeft' # psArgsLeft =>
                 /\ psArgsLeft' = psArgsLeft - 1
                 /\ psDials' = psDials + 1
                 /\ psPc' = "dial"
           /\ psDials' # psDials => psDials' = psDials + 1 /\ psPc = "dial"
           /\ psPc' = "failed_parse" => psDials' = psDials
           /\ psPc' = "loop" => psArgsLeft' = 0 /\ psListening' = TRUE
         ]_vars

\* the first address was dialed, the second did not parse and ended startup
C17_Witness ==
    /\ psPc = "failed_parse"
    /\ psDials = 1 /\ psArgsLeft = 1
    /\ psListening = FALSE

\* C18: handling the event that a peer does not support the pub/sub
\* protocol only prints the informational line: the subscription, the
\* dials made, the listening state and the publishes stay as they were and
\* no call is made on the swarm.
C18_NotSupportedOnlyPrints ==
    [][ (psEvents' = psEvents + 1 /\ psOut' = PsPrinted("GossipsubNotSupported")) =>
           /\ psCalls' = psCalls /\ psCalls = <<>>
           /\ UNCHANGED <<psPc, psSubscribed, psDials, psLastDial, psListening,
                          psPublishes, psPubErrs, psLines, psStdin>>
      ]_vars

\* the event was handled by a node that had dialed a peer and published
C18_Witness ==
    /\ psOut = PsPrinted("GossipsubNotSupported")
    /\ psEvents > 0
    /\ psDials > 0 /\ psPublishes > 0 /\ psSubscribed

(***************************************************************************)
(* Claims about the start of the DHT driver.                               *)
(***************************************************************************)
BootnodeSet == {BOOTNODES[i] : i \in 1..Len(BOOTNODES)}

\* C19: the four boot nodes are all in the routing table before the run's
\* query is issued, so no query starts on an empty routing table: a step
\* that issues the query is taken with the four of them in the table, the
\* table is filled in the order of the list, and a run that failed before
\* the command was read has issued no query.
C19_BootnodesBeforeQuery ==
    /\ [](kQueries # <<>> => kRouting = BootnodeSet /\ Cardinality(kRouting) = 4)
    /\ [](kPc \in {"start", "seed", "cli"} => kQueries = <<>>)
    /\ [][ /\ kQueries' # kQueries =>
                /\ kRouting = BootnodeSet
                /\ kQueries = <<>> /\ Len(kQueries') = 1
           /\ kRouting' # kRouting => kPc = "seed" /\ kQueries' = <<>>
           /\ (kPc \in {"start", "seed"} /\ kPc' = "exit_err") => kQueries' = <<>>
         ]_vars

\* a put of the record was issued with the four boot nodes in the table
C19_Witness ==
    /\ kQueries = <<"PutRecord">>
    /\ kRouting = BootnodeSet
    /\ kPc = "loop"

(***************************************************************************)
(* Claims about the order of the chat loop.                                *)
(***************************************************************************)
PublishCmds(n) == SelectSeq(cCmds[n], LAMBDA c : c.cmd = "publish")
LineStep(n) == cLines'[n] # cLines[n]
EventStep(n) == Len(cEvents'[n]) < Len(cEvents[n])
BothPending(n) ==
    /\ cPc[n] = "loop" /\ cStdin[n] = "open" /\ cLines[n] < LinesOnStdin
    /\ cEvents[n] # <<>>

\* C20: a turn of the chat loop handles one line or one network event,
\* never both; the publish commands of a node are those of its lines, one
\* for each, in the order read; the pending events are handled from the
\* oldest on and a new one joins at the end; handling a Message event prints
\* one 'Received message' line for it and commands nothing; with a line and
\* an event both pending either may be taken next.
C20_OneItemPerTurnInOrder ==
    /\ [](\A n \in ChatNodes :
            /\ Len(PublishCmds(n)) = cLines[n]
            /\ \A i \in 1..Len(PublishCmds(n)) : PublishCmds(n)[i].line = i
            /\ BothPending(n) => ENABLED ChatPublishLine(n) /\ ENABLED ChatHandleEvent(n))
    /\ [][\A n \in ChatNodes :
            /\ ~(LineStep(n) /\ EventStep(n))
            /\ LineStep(n) =>
                 /\ cLines'[n] = cLines[n] + 1
                 /\ cCmds'[n] = Append(cCmds[n], Cmd("publish", cLines'[n], "none"))
                 /\ cEvents'[n] = cEvents[n]
                 /\ cExplicit'[n] = cExplicit[n]
            /\ EventStep(n) =>
                 /\ cEvents'[n] = Tail(cEvents[n])
                 /\ cLines'[n] = cLines[n]
                 /\ PublishCmds(n)' = PublishCmds(n)
                 /\ Head(cEvents[n]).kind = "Message" =>
                       /\ cOut'[n] = Append(cOut[n],
                                            Printed("Received message", Head(cEvents[n]).msg))
                       /\ cCmds'[n] = cCmds[n]
            /\ Len(cEvents'[n]) > Len(cEvents[n]) =>
                 /\ Len(cEvents'[n]) = Len(cEvents[n]) + 1
                 /\ SubSeq(cEvents'[n], 1, Len(cEvents[n])) = cEvents[n]
                 /\ cOut'[n] = cOut[n] /\ cCmds'[n] = cCmds[n]
            /\ (cPc[n] = "loop" /\ (cOut'[n] # cOut[n] \/ cCmds'[n] # cCmds[n])) =>
                 LineStep(n) \/ EventStep(n)
      ]_vars

\* a node handled a discovery between its two lines and printed a message
\* it received
C20_Witness ==
    \E n \in ChatNodes :
       /\ cLines[n] = 2
       /\ \E i, j, k \in DOMAIN cCmds[n] :
             /\ i < j /\ j < k
             /\ cCmds[n][i].cmd = "publish" /\ cCmds[n][k].cmd = "publish"
             /\ cCmds[n][j].cmd = "add_explicit_peer"
       /\ \E i \in DOMAIN cOut[n] : cOut[n][i].line = "Received message"

(***************************************************************************)
(* Claims about strip_peer_id alone.                                       *)
(***************************************************************************)
\* the address strip_peer_id was given in the address run
ParsedText == Multiaddr_from_str(sanitized(aText)).addr

\* C21: strip_peer_id removes at most one segment, and only the last: a last
\* segment that is a PeerId is removed and the segments before it are kept
\* in order; with any other last segment the address is returned as it was;
\* the empty address stays empty; a PeerId that is not last is kept.
C21_OnlyTheLastPeerIdGoes ==
    (aPc = "done" /\ aRes.ok) =>
        /\ Len(aRes.addr) \in {Len(ParsedText), Len(ParsedText) - 1}
        /\ \A i \in 1..Len(aRes.addr) : aRes.addr[i] = ParsedText[i]
        /\ ParsedText = <<>> => aRes.addr = <<>>
        /\ LastIsP2p(ParsedText) => Len(aRes.addr) = Len(ParsedText) - 1
        /\ (ParsedText # <<>> /\ ~LastIsP2p(ParsedText)) => aRes.addr = ParsedText
        /\ \A i \in 1..(Len(ParsedText) - 1) :
              IsP2p(ParsedText[i]) => (i \in DOMAIN aRes.addr /\ IsP2p(aRes.addr[i]))

\* an address of two PeerId segments lost the last and kept the first
C21_Witness ==
    /\ aPc = "done" /\ aRes.ok
    /\ Len(ParsedText) = 2
    /\ IsP2p(ParsedText[1]) /\ IsP2p(ParsedText[2])
    /\ aRes.addr = <<ParsedText[1]>>

(***************************************************************************)
(* The end of a run of the DHT driver.  The query is taken to report its   *)
(* result in the end (the library ends it after the timeout of             *)
(* ipfs-kad.rs 47 at the latest): weak fairness of KadQueryResult.         *)
(***************************************************************************)
SpecKadLive == KadInit /\ [][KadNext]_vars /\ WF_vars(KadQueryResult)

KadExited == kPc \in {"exit_ok", "exit_err"}

\* C22: a run issues one query, no more; an event that is not the result of
\* the query is ignored and leaves the loop running and everything else as
\* it was; the first result of the query ends the run, and a run that ended
\* does nothing more; a run in its loop ends in the end.
C22_OneQueryThenExit ==
    /\ [](Len(kQueries) <= 1 /\ (kPc = "loop" => Len(kQueries) = 1))
    /\ [][ /\ kIgnored' # kIgnored =>
                /\ kPc = "loop" /\ kPc' = "loop"
                /\ UNCHANGED <<kRouting, kQueries, kAcks, kLast>>
           /\ kLast' # kLast => kPc = "loop" /\ KadExited'
           /\ KadExited => UNCHANGED kVars
         ]_vars
    /\ (kPc = "loop") ~> KadExited

\* a put of the record ended well after other events had been ignored
C22_Witness ==
    /\ kPc = "exit_ok"
    /\ kQueries = <<"PutRecord">>
    /\ kIgnored = MaxLoop
    /\ kLast.kind = "PutRecordOk"

\* the result that ended the loop is a success of the query
GoodResult(e) ==
    \/ e.kind = "GetClosestPeersOk" /\ e.peers # {}
    \/ e.kind = "PutRecordOk"

\* C23: a run ends well exactly when the result of its query is a
\* closest-peers success with at least one peer or a put-record success; a
\* closest-peers timeout, a closest-peers result without peers and a
\* put-record error each end it with an error; after a result no query is
\* issued again.
C23_SuccessOnlyOnGoodResult ==
    /\ [](kPc = "exit_ok" <=> GoodResult(kLast))
    /\ [](kLast # NoEvent =>
             /\ kPc \in {"exit_ok", "exit_err"}
             /\ Len(kQueries) = 1
             /\ kLast.kind \in (IF kQueries = <<"GetClosestPeers">>
                                THEN {"GetClosestPeersOk", "GetClosestPeersTimeout"}
                                ELSE {"PutRecordOk", "PutRecordErr"}))
    /\ []((kLast.kind \in {"GetClosestPeersTimeout", "PutRecordErr"}
              \/ (kLast.kind = "GetClosestPeersOk" /\ kLast.peers = {}))
            => kPc = "exit_err")
    /\ [][kLast # NoEvent => UNCHANGED <<kQueries, kLast, kPc>>]_vars

\* a put of the record ended in an error with fewer acknowledgements than
\* the quorum
C23_Witness ==
    /\ kPc = "exit_err"
    /\ kLast.kind = "PutRecordErr"
    /\ kAcks # {} /\ Cardinality(kAcks) < Quorum
    /\ kQueries = <<"PutRecord">>

(***************************************************************************)
(* Claims about the --peer address of the file-distribution front end.     *)
(***************************************************************************)
ActionCmds == {"start_providing", "get_providers", "request_file"}
PeerGiven(n) == fDialAddr[n] # NoPeerArg

\* C24: a run whose --peer address does not end with a PeerId ends with an
\* error having issued no dial, start_providing, get_providers or
\* request_file; a run whose --peer address ends with a PeerId dials that
\* PeerId, once, with the address as given, before any command of its
\* action, and its action starts only when the dial has succeeded.
C24_PeerAddressNeedsPeerId ==
    /\ [](\A n \in Nodes :
            /\ (PeerGiven(n) /\ ~LastIsP2p(fDialAddr[n])) =>
                 /\ fPc[n] = "exit_err"
                 /\ fCmds[n] = <<"start_listening">>
                 /\ RequestsOf(n) = {}
                 /\ \A name \in Names : n \notin fDht[name]
            /\ (PeerGiven(n) /\ LastIsP2p(fDialAddr[n])) =>
                 /\ Count(fCmds[n], "dial") = 1
                 /\ fDialPeer[n] = fDialAddr[n][Len(fDialAddr[n])][2]
                 /\ \A i \in 1..Len(fCmds[n]) :
                       fCmds[n][i] \in ActionCmds =>
                          \E j \in 1..(i - 1) : fCmds[n][j] = "dial"
            /\ Has(fCmds[n], "dial") => PeerGiven(n) /\ LastIsP2p(fDialAddr[n]))
    /\ [][\A n \in Nodes :
            /\ fDialAddr'[n] # fDialAddr[n] => fPc[n] = "peer" /\ fDialAddr[n] = NoPeerArg
            /\ (fPc[n] = "peer" /\ fPc'[n] = "panicked") =>
                 /\ fCmds'[n] = Append(fCmds[n], "dial")
            /\ fPc[n] = "panicked" => fCmds'[n] = fCmds[n] /\ fPc'[n] = "panicked"
         ]_vars

\* a run ended on a --peer address without a PeerId while a provider of
\* the network was serving
C24_Witness ==
    \E n, m \in Nodes :
       /\ fDialAddr[n] = <<<<"Ip4", "127.0.0.1">>>>
       /\ fPc[n] = "exit_err"
       /\ fCmds[n] = <<"start_listening">>
       /\ fPc[m] = "serving"

(***************************************************************************)
(* Claims about the subscription of the chat and pub/sub drivers.          *)
(***************************************************************************)
\* C25: a node is subscribed to its topic before its event loop starts:
\* every publish of a chat node comes after its one subscribe and names the
\* topic of that subscribe, and the pub/sub driver is subscribed whenever it
\* is in its loop or has published.
C25_SubscribedBeforePublishing ==
    /\ \A n \in ChatNodes :
          /\ cPc[n] = "loop" => cCmds[n] # <<>> /\ cCmds[n][1] = Cmd("subscribe", 0, "none")
          /\ \A i \in DOMAIN cCmds[n] :
                cCmds[n][i].cmd = "publish" =>
                   /\ cPc[n] = "loop"
                   /\ \E j \in 1..(i - 1) :
                         /\ cCmds[n][j].cmd = "subscribe"
                         /\ cCmds[n][j].topic = cCmds[n][i].topic
          /\ \A i, j \in DOMAIN cCmds[n] :
                (cCmds[n][i].cmd = "subscribe" /\ cCmds[n][j].cmd = "subscribe") => i = j
          /\ cLines[n] > 0 => \E i \in DOMAIN cCmds[n] : cCmds[n][i].cmd = "subscribe"
    /\ psPc = "loop" => psSubscribed
    /\ (psPublishes > 0 \/ psLines > 0) => psSubscribed /\ psPc = "loop"

\* a chat node subscribed, listened and published its first line
C25_Witness ==
    \E n \in ChatNodes :
       cCmds[n] = ChatStartCmds \o <<Cmd("publish", 1, "none")>>

(***************************************************************************)
(* Claims about the end of standard input.                                 *)
(***************************************************************************)
\* C26: the end of standard input, or an error reading it, leaves the
\* driver in its loop and publishes nothing: the step that ends the input
\* changes nothing else, no line is read and no publish made afterwards,
\* and a network event can still be handled.
C26_InputEndLeavesLoopRunning ==
    /\ [](\A n \in ChatNodes :
            (cPc[n] = "loop" /\ cStdin[n] = "eof" /\ cEvents[n] # <<>>) =>
                ENABLED ChatHandleEvent(n))
    /\ []((psPc = "loop" /\ psStdin = "eof" /\ psEvents < MaxLoop) => ENABLED PsSwarmEvent)
    /\ [][ /\ \A n \in ChatNodes :
                /\ cStdin'[n] # cStdin[n] =>
                      /\ cStdin[n] = "open" /\ cStdin'[n] = "eof"
                      /\ cPc[n] = "loop" /\ cPc'[n] = "loop"
                      /\ UNCHANGED <<cCmds, cLines, cOut, cWire, cEvents, cExplicit>>
                /\ cStdin[n] = "eof" =>
                      /\ cLines'[n] = cLines[n]
                      /\ PublishCmds(n)' = PublishCmds(n)
                      /\ cPc'[n] = cPc[n]
           /\ psStdin' # psStdin =>
                 /\ psStdin = "open" /\ psStdin' = "eof"
                 /\ psPc = "loop" /\ psPc' = "loop"
                 /\ UNCHANGED <<psLines, psPublishes, psPubErrs, psOut, psEvents>>
           /\ psStdin = "eof" =>
                 /\ UNCHANGED <<psLines, psPublishes, psPubErrs, psPc>>
         ]_vars

\* a chat node whose input ended before any line has printed a message it
\* received, and is in its loop
C26_Witness ==
    \E n \in ChatNodes :
       /\ cStdin[n] = "eof" /\ cLines[n] = 0
       /\ cPc[n] = "loop"
       /\ \E i \in DOMAIN cOut[n] : cOut[n][i].line = "Received message"

(***************************************************************************)
(* Claims about the events of the serving loop.                            *)
(***************************************************************************)
RequestsTo(n) == {i \in 1..Len(fReqs) : fReqs[i].to = n}

\* C27: a turn of the serving loop leaves the loop running only when it
\* took an InboundRequest; a turn over anything else (another event, the
\* end of the event stream) aborts the run, and a run that was aborted
\* answers no request afterwards: its commands and the requests sent to it
\* get no response from it any more.
C27_OnlyRequestsKeepServing ==
    [][\A n \in Nodes :
         /\ (fPc[n] = "serving" /\ fInbox'[n] # fInbox[n] /\ Len(fInbox'[n]) < Len(fInbox[n])) =>
               /\ Head(fInbox[n]).kind = "InboundRequest"
               /\ fInbox'[n] = Tail(fInbox[n])
               /\ fPc'[n] \in {"serving", "exit_err"}
         /\ (fPc[n] = "serving" /\ fPc'[n] # "serving") =>
               \/ fPc'[n] = "panicked" /\ fInbox'[n] = fInbox[n]
                     /\ fCmds'[n] = fCmds[n] /\ fReqs' = fReqs
               \/ fPc'[n] = "exit_err" /\ fInbox[n] # <<>> /\ fInbox'[n] = Tail(fInbox[n])
                     /\ fCmds'[n] = fCmds[n]
         /\ fPc[n] = "panicked" =>
               /\ fPc'[n] = "panicked"
               /\ fCmds'[n] = fCmds[n]
               /\ \A i \in RequestsTo(n) :
                     /\ fReqs'[i].responses = fReqs[i].responses
                     /\ fReqs'[i].handled = fReqs[i].handled
    ]_vars

\* a provider answered a request, then was aborted with a request waiting
\* that it never took
C27_Witness ==
    \E n \in Nodes :
       /\ fPc[n] = "panicked"
       /\ Has(fCmds[n], "respond_file")
       /\ fInbox[n] # <<>>
       /\ \E i \in RequestsTo(n) : ~fReqs[i].handled /\ fReqs[i].responses = 0

(***************************************************************************)
(* Progress of the chat loop.  select! (chat.rs 53) polls its two branches *)
(* in an order drawn anew at each turn, and the loop does nothing but      *)
(* wait for them: an event that is ready is taken in the end, whether or   *)
(* not lines come.  Lines and events come as the user and the network    *)
(* please: no fairness for them.                                           *)
(***************************************************************************)
SpecChatLive ==
    ChatAloneInit /\ [][ChatNext]_vars /\ \A n \in ChatNodes : WF_vars(ChatHandleEvent(n))

\* C28: a network event that is ready at a node in its loop is handled in
\* the end, whether lines are still to come or not, and the events
\* delivered are all handled; a line read is published, or the failure of
\* its publish reported, in the turn that read it, whatever events wait.
C28_EveryItemIsHandled ==
    /\ \A n \in ChatNodes :
          (cPc[n] = "loop" /\ cEvents[n] # <<>>) ~> (cEvents[n] = <<>>)
    /\ \A n \in ChatNodes :
          (cPc[n] = "loop" /\ Len(cEvents[n]) > 1) ~> (Len(cEvents[n]) <= 1)
    /\ [](\A n \in ChatNodes : Len(PublishCmds(n)) = cLines[n])
    /\ [][\A n \in ChatNodes :
            cLines'[n] # cLines[n] =>
               /\ Len(PublishCmds(n)') = Len(PublishCmds(n)) + 1
               /\ \/ cWire' # cWire /\ cOut'[n] = cOut[n]
                  \/ cWire' = cWire
                        /\ cOut'[n] = Append(cOut[n], Printed("Publish error", NoMsg))
         ]_vars

\* a node read its lines with events waiting, and every event that came has
\* been handled
C28_Witness ==
    \E n \in ChatNodes :
       /\ cPc[n] = "loop"
       /\ cLines[n] = MaxSayAlone
       /\ cNet = 0 /\ cEvents[n] = <<>>
       /\ Len(cOut[n]) >= MaxMdns

=============================================================================
